---- MODULE Spec2Model ----
(***************************************************************************)
(* The stored procedures of examples/wasm/business_rules.rs and            *)
(* examples/wasm/discount.rs: eight exported functions over f64, i32 and   *)
(* i64 values, called by a host one invocation at a time.                  *)
(*                                                                         *)
(* f64 values are IEEE-754 binary64 values, computed here with exact       *)
(* magnitudes and round-to-nearest-even; i64 values are sign and           *)
(* magnitude.  Magnitudes are little-endian sequences of limbs.            *)
(***************************************************************************)
EXTENDS Integers, Sequences, FiniteSets, TLC

(***************************************************************************)
(* Magnitudes: natural numbers of any size, least significant limb first,  *)
(* no leading zero limb, <<>> for 0.                                       *)
(***************************************************************************)
LimbBits == 13
Limb == 2 ^ LimbBits

RECURSIVE BTrim(_)
BTrim(a) ==
    IF a = <<>> THEN <<>>
    ELSE IF a[Len(a)] = 0 THEN BTrim(SubSeq(a, 1, Len(a) - 1))
    ELSE a

RECURSIVE BFromNat(_)
BFromNat(n) ==
    IF n = 0 THEN <<>> ELSE <<n % Limb>> \o BFromNat(n \div Limb)

RECURSIVE BToNatFrom(_, _)
BToNatFrom(a, i) ==
    IF i > Len(a) THEN 0 ELSE a[i] + Limb * BToNatFrom(a, i + 1)

\* the value of a magnitude below 2^31
BToNat(a) == BToNatFrom(a, 1)

BLimb(a, i) == IF i >= 1 /\ i <= Len(a) THEN a[i] ELSE 0

RECURSIVE BCmpFrom(_, _, _)
BCmpFrom(a, b, i) ==
    IF i = 0 THEN 0
    ELSE IF a[i] < b[i] THEN -1
    ELSE IF a[i] > b[i] THEN 1
    ELSE BCmpFrom(a, b, i - 1)

\* -1, 0 or 1 as a < b, a = b or a > b
BCmp(a, b) ==
    IF Len(a) < Len(b) THEN -1
    ELSE IF Len(a) > Len(b) THEN 1
    ELSE BCmpFrom(a, b, Len(a))

\* limbs whose entries may exceed Limb - 1, brought back to range
RECURSIVE BCarry(_, _, _)
BCarry(cols, i, carry) ==
    IF i > Len(cols)
    THEN (IF carry = 0 THEN <<>> ELSE BFromNat(carry))
    ELSE LET t == cols[i] + carry
         IN  <<t % Limb>> \o BCarry(cols, i + 1, t \div Limb)

BMax(m, n) == IF m >= n THEN m ELSE n
BMin(m, n) == IF m <= n THEN m ELSE n

BAdd(a, b) ==
    BTrim(BCarry([i \in 1..BMax(Len(a), Len(b)) |-> BLimb(a, i) + BLimb(b, i)], 1, 0))

RECURSIVE BBorrow(_, _, _, _)
BBorrow(a, b, i, borrow) ==
    IF i > Len(a) THEN <<>>
    ELSE LET t == a[i] - BLimb(b, i) - borrow
         IN  IF t < 0 THEN <<t + Limb>> \o BBorrow(a, b, i + 1, 1)
             ELSE <<t>> \o BBorrow(a, b, i + 1, 0)

\* a - b for a >= b
BSub(a, b) == BTrim(BBorrow(a, b, 1, 0))

RECURSIVE BColumn(_, _, _, _)
BColumn(a, b, k, i) ==
    IF i > BMin(k, Len(a)) THEN 0
    ELSE (IF k - i + 1 <= Len(b) THEN a[i] * b[k - i + 1] ELSE 0)
         + BColumn(a, b, k, i + 1)

RECURSIVE BMulCarry(_, _, _, _)
BMulCarry(a, b, k, carry) ==
    IF k > Len(a) + Len(b) - 1
    THEN (IF carry = 0 THEN <<>> ELSE BFromNat(carry))
    ELSE LET t == BColumn(a, b, k, 1) + carry
         IN  <<t % Limb>> \o BMulCarry(a, b, k + 1, t \div Limb)

\* a * b; each column is summed limb by limb so that no sum leaves 31 bits
BMul(a, b) ==
    IF a = <<>> \/ b = <<>> THEN <<>> ELSE BTrim(BMulCarry(a, b, 1, 0))

\* a * k for 0 <= k < 2^17
BMulSmall(a, k) == BTrim(BCarry([i \in 1..Len(a) |-> a[i] * k], 1, 0))

RECURSIVE BDivSmallFrom(_, _, _, _)
BDivSmallFrom(a, k, i, rem) ==
    IF i = 0 THEN <<>>
    ELSE LET t == rem * Limb + a[i]
         IN  BDivSmallFrom(a, k, i - 1, t % k) \o <<t \div k>>

\* a \div k and a % k for 0 < k < 2^17
BDivSmall(a, k) == BTrim(BDivSmallFrom(a, k, Len(a), 0))

RECURSIVE BModSmallFrom(_, _, _, _)
BModSmallFrom(a, k, i, rem) ==
    IF i = 0 THEN rem
    ELSE BModSmallFrom(a, k, i - 1, (rem * Limb + a[i]) % k)

BModSmall(a, k) == BModSmallFrom(a, k, Len(a), 0)

RECURSIVE NatBitLen(_)
NatBitLen(n) == IF n = 0 THEN 0 ELSE 1 + NatBitLen(n \div 2)

BBitLen(a) ==
    IF a = <<>> THEN 0 ELSE LimbBits * (Len(a) - 1) + NatBitLen(a[Len(a)])

\* a * 2^k
BShl(a, k) ==
    IF a = <<>> THEN <<>>
    ELSE LET q == k \div LimbBits
             r == k % LimbBits
         IN  [i \in 1..q |-> 0] \o BMulSmall(a, 2 ^ r)

\* a \div 2^k
BShr(a, k) ==
    LET q == k \div LimbBits
        r == k % LimbBits
    IN  IF q >= Len(a) THEN <<>>
        ELSE BDivSmall(SubSeq(a, q + 1, Len(a)), 2 ^ r)

\* a % 2^k
BLow(a, k) ==
    LET q == k \div LimbBits
        r == k % LimbBits
    IN  IF q >= Len(a) THEN a
        ELSE BTrim(SubSeq(a, 1, q) \o <<a[q + 1] % (2 ^ r)>>)

BIsOdd(a) == a # <<>> /\ a[1] % 2 = 1

\* the largest k < Limb with k * b <= r, found bit by bit from acc
RECURSIVE BQuoDigit(_, _, _, _)
BQuoDigit(r, b, i, acc) ==
    IF i = 0 THEN acc
    ELSE LET cand == acc + 2 ^ (i - 1)
         IN  IF BCmp(BMulSmall(b, cand), r) <= 0
             THEN BQuoDigit(r, b, i - 1, cand)
             ELSE BQuoDigit(r, b, i - 1, acc)

\* one step of long division: from st = <<quotient, remainder>> with
\* remainder < b, the same once the limb d has been brought down
BDivStep(st, d, b) ==
    LET r == BAdd(BShl(st[2], LimbBits), BFromNat(d))
        k == BQuoDigit(r, b, LimbBits, 0)
    IN  <<BAdd(BShl(st[1], LimbBits), BFromNat(k)), BSub(r, BMulSmall(b, k))>>

\* <<quotient, remainder>> of the limbs a[j..Len(a)] by b
RECURSIVE BDivFrom(_, _, _)
BDivFrom(a, b, j) ==
    IF j > Len(a) THEN <<<<>>, <<>>>>
    ELSE LET st == BDivFrom(a, b, j + 1)
         IN  IF st[2] = <<>> /\ a[j] = 0
             THEN <<BShl(st[1], LimbBits), <<>>>>
             ELSE BDivStep(st, a[j], b)

\* <<a \div b, a % b>> for b # 0
BDivMod(a, b) == BDivFrom(a, b, 1)

(***************************************************************************)
(* f64: IEEE-754 binary64.  A value is NaN, an infinity, a zero, or        *)
(* (-1)^sign * man * 2^exp with man of 53 bits (normal) or exp = MinExp    *)
(* and man of fewer bits (subnormal).  One NaN stands for all NaNs.        *)
(***************************************************************************)
MantBits == 53
MinExp == -1074
MaxExp == 971

NaN == [cls |-> "nan", sign |-> 0, man |-> <<>>, exp |-> 0]
Inf(s) == [cls |-> "inf", sign |-> s, man |-> <<>>, exp |-> 0]
Zero(s) == [cls |-> "zero", sign |-> s, man |-> <<>>, exp |-> 0]
Fin(s, m, e) == [cls |-> "fin", sign |-> s, man |-> m, exp |-> e]

\* bit k of a, counted from 0
BBit(a, k) == (BLimb(a, (k \div LimbBits) + 1) \div (2 ^ (k % LimbBits))) % 2

\* the f64 nearest to (-1)^s * m * 2^e, ties to the even mantissa: m loses
\* its low `shift` bits, and goes up by one when they are more than half a
\* unit, or exactly half and the kept mantissa is odd
RoundPack(s, m, e) ==
    IF m = <<>> THEN Zero(s)
    ELSE
      LET shift == BMax(BBitLen(m) - MantBits, MinExp - e)
          q     == IF shift > 0 THEN BShr(m, shift) ELSE BShl(m, 0 - shift)
          up    == /\ shift > 0
                   /\ BBit(m, shift - 1) = 1
                   /\ (BLow(m, shift - 1) # <<>> \/ BIsOdd(q))
          q2    == IF up THEN BAdd(q, <<1>>) ELSE q
          over  == BBitLen(q2) > MantBits
          q3    == IF over THEN BShr(q2, 1) ELSE q2
          e3    == IF over THEN e + shift + 1 ELSE e + shift
      IN  IF q3 = <<>> THEN Zero(s)
          ELSE IF e3 > MaxExp THEN Inf(s)
          ELSE Fin(s, q3, e3)

I32Max == 2147483647
I32Min == (-2147483647) - 1

\* |n| as a magnitude
I32Mag(n) ==
    IF n = I32Min THEN <<0, 0, 32>>
    ELSE IF n < 0 THEN BFromNat(0 - n) ELSE BFromNat(n)

\* `n as f64` for an i32 n: exact
FromI32(n) == RoundPack(IF n < 0 THEN 1 ELSE 0, I32Mag(n), 0)

FNeg(x) == IF x.cls = "nan" THEN x ELSE [x EXCEPT !.sign = 1 - x.sign]

FMul(x, y) ==
    LET s == (x.sign + y.sign) % 2
    IN  IF x.cls = "nan" \/ y.cls = "nan" THEN NaN
        ELSE IF x.cls = "inf" \/ y.cls = "inf"
        THEN (IF x.cls = "zero" \/ y.cls = "zero" THEN NaN ELSE Inf(s))
        ELSE IF x.cls = "zero" \/ y.cls = "zero" THEN Zero(s)
        ELSE RoundPack(s, BMul(x.man, y.man), x.exp + y.exp)

\* the number of zero bits below the lowest set bit of n > 0
RECURSIVE NatTrailingZeros(_)
NatTrailingZeros(n) == IF n % 2 = 1 THEN 0 ELSE 1 + NatTrailingZeros(n \div 2)

RECURSIVE BTrailingFrom(_, _)
BTrailingFrom(a, i) ==
    IF a[i] = 0 THEN LimbBits + BTrailingFrom(a, i + 1)
    ELSE NatTrailingZeros(a[i])

\* the same of a magnitude a # 0
BTrailingZeros(a) == BTrailingFrom(a, 1)

QuotientBits == 110
SmallDivisorBits == 17

\* <<quotient, remainder is nonzero>> of m * 2^QuotientBits by d
FQuotient(m, d) ==
    IF BBitLen(d) <= SmallDivisorBits
    THEN <<BDivSmall(BShl(m, QuotientBits), BToNat(d)),
           BModSmall(BShl(m, QuotientBits), BToNat(d)) # 0>>
    ELSE LET qr == BDivMod(BShl(m, QuotientBits), d)
         IN  <<qr[1], qr[2] # <<>>>>

\* x / y: the divisor's mantissa is an odd number times 2^t, the quotient by
\* the odd number is taken to QuotientBits more bits than x has, and a
\* remainder counts as one more bit below them
FDiv(x, y) ==
    LET s == (x.sign + y.sign) % 2
    IN  IF x.cls = "nan" \/ y.cls = "nan" THEN NaN
        ELSE IF x.cls = "inf"
        THEN (IF y.cls = "inf" THEN NaN ELSE Inf(s))
        ELSE IF y.cls = "inf" THEN Zero(s)
        ELSE IF y.cls = "zero"
        THEN (IF x.cls = "zero" THEN NaN ELSE Inf(s))
        ELSE IF x.cls = "zero" THEN Zero(s)
        ELSE
          LET t      == BTrailingZeros(y.man)
              q      == FQuotient(x.man, BShr(y.man, t))
              sticky == IF q[2] THEN <<1>> ELSE <<>>
          IN  RoundPack(s, BAdd(BShl(q[1], 1), sticky),
                        x.exp - y.exp - t - QuotientBits - 1)

\* how far above y's leading bit x's leading bit lies
FGap(x, y) == (BBitLen(x.man) + x.exp) - (BBitLen(y.man) + y.exp)

StickyGap == 64

\* x + y for finite nonzero x and y, from the exact sum; when one operand
\* lies more than StickyGap bits below the other it counts as one unit three
\* bits below the other's last bit, which rounds as the operand itself does
FAddFin(x, y) ==
    LET hi  == IF FGap(x, y) >= 0 THEN x ELSE y
        lo  == IF FGap(x, y) >= 0 THEN y ELSE x
        far == FGap(hi, lo) > StickyGap
        e   == IF far THEN hi.exp - 3 ELSE BMin(x.exp, y.exp)
        mh  == BShl(hi.man, hi.exp - e)
        ml  == IF far THEN <<1>> ELSE BShl(lo.man, lo.exp - e)
        c   == BCmp(mh, ml)
        mag == IF hi.sign = lo.sign THEN BAdd(mh, ml)
               ELSE IF c >= 0 THEN BSub(mh, ml) ELSE BSub(ml, mh)
        sgn == IF hi.sign = lo.sign \/ c > 0 THEN hi.sign
               ELSE IF c < 0 THEN lo.sign ELSE 0
    IN  RoundPack(sgn, mag, e)

FAdd(x, y) ==
    IF x.cls = "nan" \/ y.cls = "nan" THEN NaN
    ELSE IF x.cls = "inf"
    THEN (IF y.cls = "inf" /\ y.sign # x.sign THEN NaN ELSE x)
    ELSE IF y.cls = "inf" THEN y
    ELSE IF x.cls = "zero"
    THEN (IF y.cls = "zero"
          THEN (IF x.sign = 1 /\ y.sign = 1 THEN Zero(1) ELSE Zero(0))
          ELSE y)
    ELSE IF y.cls = "zero" THEN x
    ELSE FAddFin(x, y)

FSub(x, y) == FAdd(x, FNeg(y))

\* x < y on finite nonzero values of the same sign s
FMagLt(x, y) ==
    LET e == BMin(x.exp, y.exp)
    IN  IF BBitLen(x.man) + x.exp # BBitLen(y.man) + y.exp
        THEN BBitLen(x.man) + x.exp < BBitLen(y.man) + y.exp
        ELSE BCmp(BShl(x.man, x.exp - e), BShl(y.man, y.exp - e)) < 0

\* the rank of a value's class and sign on the number line
FRank(x) ==
    IF x.cls = "zero" THEN 0
    ELSE IF x.cls = "inf" THEN (IF x.sign = 0 THEN 2 ELSE -2)
    ELSE (IF x.sign = 0 THEN 1 ELSE -1)

\* the f64 `<`: false when either side is NaN, -0.0 and 0.0 are equal
FLt(x, y) ==
    IF x.cls = "nan" \/ y.cls = "nan" THEN FALSE
    ELSE IF FRank(x) # FRank(y) THEN FRank(x) < FRank(y)
    ELSE IF x.cls # "fin" THEN FALSE
    ELSE IF x.sign = 0 THEN FMagLt(x, y) ELSE FMagLt(y, x)

\* the f64 `==`
FEq(x, y) ==
    IF x.cls = "nan" \/ y.cls = "nan" THEN FALSE
    ELSE IF x.cls = "zero" /\ y.cls = "zero" THEN TRUE
    ELSE x = y

FLe(x, y) == FLt(x, y) \/ FEq(x, y)

\* f64::min: the other operand when one is NaN
FMinimum(x, y) ==
    IF x.cls = "nan" THEN y
    ELSE IF y.cls = "nan" THEN x
    ELSE IF FLt(y, x) THEN y ELSE x

\* `x as i32`: toward zero, saturating, NaN to 0
ToI32(x) ==
    IF x.cls = "nan" \/ x.cls = "zero" THEN 0
    ELSE IF x.cls = "inf" THEN (IF x.sign = 0 THEN I32Max ELSE I32Min)
    ELSE
      LET t == BShr(x.man, 0 - x.exp)
      IN  IF x.exp >= 0 \/ BBitLen(t) > 31 THEN (IF x.sign = 0 THEN I32Max ELSE I32Min)
          ELSE IF x.sign = 0 THEN BToNat(t) ELSE 0 - BToNat(t)

\* a decimal literal n / d of the source text, for d a power of ten
Lit(n, d) == FDiv(FromI32(n), FromI32(d))

(***************************************************************************)
(* i32 arithmetic.  An overflowing `+` or `*` panics (a trap in the wasm   *)
(* module) when the build has overflow checks, and wraps modulo 2^32 when  *)
(* it has none; overflow_checks is the build's choice, fixed for a run.    *)
(***************************************************************************)
VARIABLES
    overflow_checks, \* the module was built with overflow checks
    pc,              \* "idle", "loop" (in validate_credit_card), "returned", "trapped"
    proc,            \* the procedure of the invocation in progress or just ended
    args,            \* its arguments
    local,           \* its let-bound local (a rate, a cost, base_points)
    ret,             \* its return value
    num,             \* validate_credit_card: num
    sum,             \* validate_credit_card: sum
    alternate,       \* validate_credit_card: alternate
    iters,           \* validate_credit_card: iterations of the loop so far
    seen             \* an earlier invocation the host kept: procedure, arguments, outcome

vars == <<overflow_checks, pc, proc, args, local, ret, num, sum, alternate, iters, seen>>

Overflowed(wrapped) ==
    IF overflow_checks THEN [trap |-> TRUE, val |-> 0]
    ELSE [trap |-> FALSE, val |-> wrapped]

Exact(v) == [trap |-> FALSE, val |-> v]

\* a + b on i32
AddI32(a, b) ==
    IF b > 0 /\ a > I32Max - b
    THEN Overflowed(((a - I32Max) - 1) + ((b - I32Max) - 1))
    ELSE IF b < 0 /\ a < I32Min - b
    THEN Overflowed(((a + I32Max) + 1) + ((b + I32Max) + 1))
    ELSE Exact(a + b)

\* the i32 with two's complement bits m < 2^32
I32FromBits(m) ==
    IF BBitLen(m) < 32 THEN BToNat(m)
    ELSE LET low == BLow(m, 31)
         IN  (BToNat(low) - I32Max) - 1

\* a * b on i32
MulI32(a, b) ==
    LET m   == BMul(I32Mag(a), I32Mag(b))
        neg == (a < 0) # (b < 0)
        fits == IF neg THEN BCmp(m, BShl(<<1>>, 31)) <= 0 ELSE BBitLen(m) <= 31
        low == BLow(m, 32)
        bits == IF neg /\ low # <<>> THEN BSub(BShl(<<1>>, 32), low) ELSE low
    IN  IF fits
        THEN Exact(IF neg THEN (IF BBitLen(m) = 32 THEN I32Min ELSE 0 - BToNat(m))
                   ELSE BToNat(m))
        ELSE Overflowed(I32FromBits(bits))

(***************************************************************************)
(* i64 values: sign and magnitude.                                         *)
(***************************************************************************)
I64(neg, mag) == [neg |-> neg /\ mag # <<>>, mag |-> mag]

I64FromInt(n) == IF n < 0 THEN I64(TRUE, BFromNat(0 - n)) ELSE I64(FALSE, BFromNat(n))

\* the magnitude written in decimal, most significant digit first
RECURSIVE DecimalValue(_)
DecimalValue(digits) ==
    IF digits = <<>> THEN <<>>
    ELSE LET high == DecimalValue(SubSeq(digits, 1, Len(digits) - 1))
         IN  IF high = <<>> THEN BFromNat(digits[Len(digits)])
             ELSE BAdd(BMulSmall(high, 10), BFromNat(digits[Len(digits)]))

\* num > 0
I64Positive(n) == ~n.neg /\ n.mag # <<>>

\* (num % 10) as i32: the remainder has the sign of num
I64Rem10(n) == IF n.neg THEN 0 - BModSmall(n.mag, 10) ELSE BModSmall(n.mag, 10)

\* num / 10: toward zero
I64Div10(n) == I64(n.neg, BDivSmall(n.mag, 10))

\* a < b
I64Lt(a, b) ==
    IF a.neg # b.neg THEN a.neg
    ELSE IF a.neg THEN BCmp(b.mag, a.mag) < 0
    ELSE BCmp(a.mag, b.mag) < 0

(***************************************************************************)
(* business_rules.rs                                                       *)
(***************************************************************************)
\* The f64 literals of the two files, as the compiler stores them: the 53-bit
\* significand in hexadecimal digits and the power of two of its leading bit.
RECURSIVE HexValue(_)
HexValue(digits) ==
    IF digits = <<>> THEN <<>>
    ELSE LET high == HexValue(SubSeq(digits, 1, Len(digits) - 1))
         IN  IF high = <<>> THEN BFromNat(digits[Len(digits)])
             ELSE BAdd(BMulSmall(high, 16), BFromNat(digits[Len(digits)]))

Hex(digits, p) == Fin(0, HexValue(digits), p - (MantBits - 1))

F_0_0 == Zero(0)
\* 0.01 = 0x1.47ae147ae147bp-7
F_0_01 == Hex(<<1, 4, 7, 10, 14, 1, 4, 7, 10, 14, 1, 4, 7, 11>>, -7)
\* 0.03 = 0x1.eb851eb851eb8p-6
F_0_03 == Hex(<<1, 14, 11, 8, 5, 1, 14, 11, 8, 5, 1, 14, 11, 8>>, -6)
\* 0.05 = 0x1.999999999999ap-5
F_0_05 == Hex(<<1, 9, 9, 9, 9, 9, 9, 9, 9, 9, 9, 9, 9, 10>>, -5)
\* 0.06 = 0x1.eb851eb851eb8p-5
F_0_06 == Hex(<<1, 14, 11, 8, 5, 1, 14, 11, 8, 5, 1, 14, 11, 8>>, -5)
\* 0.07 = 0x1.1eb851eb851ecp-4
F_0_07 == Hex(<<1, 1, 14, 11, 8, 5, 1, 14, 11, 8, 5, 1, 14, 12>>, -4)
\* 0.08 = 0x1.47ae147ae147bp-4
F_0_08 == Hex(<<1, 4, 7, 10, 14, 1, 4, 7, 10, 14, 1, 4, 7, 11>>, -4)
\* 0.10 = 0x1.999999999999ap-4
F_0_10 == Hex(<<1, 9, 9, 9, 9, 9, 9, 9, 9, 9, 9, 9, 9, 10>>, -4)
\* 0.12 = 0x1.eb851eb851eb8p-4
F_0_12 == Hex(<<1, 14, 11, 8, 5, 1, 14, 11, 8, 5, 1, 14, 11, 8>>, -4)
\* 0.15 = 0x1.3333333333333p-3
F_0_15 == Hex(<<1, 3, 3, 3, 3, 3, 3, 3, 3, 3, 3, 3, 3, 3>>, -3)
\* 0.20 = 0x1.999999999999ap-3
F_0_20 == Hex(<<1, 9, 9, 9, 9, 9, 9, 9, 9, 9, 9, 9, 9, 10>>, -3)
\* 0.25 = 0x1.0000000000000p-2
F_0_25 == Hex(<<1, 0, 0, 0, 0, 0, 0, 0, 0, 0, 0, 0, 0, 0>>, -2)
\* 0.5 = 0x1.0000000000000p-1
F_0_5 == Hex(<<1, 0, 0, 0, 0, 0, 0, 0, 0, 0, 0, 0, 0, 0>>, -1)
\* 0.1 = 0x1.999999999999ap-4
F_0_1 == Hex(<<1, 9, 9, 9, 9, 9, 9, 9, 9, 9, 9, 9, 9, 10>>, -4)
\* 0.75 = 0x1.8000000000000p-1
F_0_75 == Hex(<<1, 8, 0, 0, 0, 0, 0, 0, 0, 0, 0, 0, 0, 0>>, -1)
\* 0.80 = 0x1.999999999999ap-1
F_0_80 == Hex(<<1, 9, 9, 9, 9, 9, 9, 9, 9, 9, 9, 9, 9, 10>>, -1)
\* 0.85 = 0x1.b333333333333p-1
F_0_85 == Hex(<<1, 11, 3, 3, 3, 3, 3, 3, 3, 3, 3, 3, 3, 3>>, -1)
\* 0.90 = 0x1.ccccccccccccdp-1
F_0_90 == Hex(<<1, 12, 12, 12, 12, 12, 12, 12, 12, 12, 12, 12, 12, 13>>, -1)
\* 0.95 = 0x1.e666666666666p-1
F_0_95 == Hex(<<1, 14, 6, 6, 6, 6, 6, 6, 6, 6, 6, 6, 6, 6>>, -1)
\* 1.0 = 0x1.0000000000000p+0
F_1_0 == Hex(<<1, 0, 0, 0, 0, 0, 0, 0, 0, 0, 0, 0, 0, 0>>, 0)
\* 1.5 = 0x1.8000000000000p+0
F_1_5 == Hex(<<1, 8, 0, 0, 0, 0, 0, 0, 0, 0, 0, 0, 0, 0>>, 0)
\* 5.0 = 0x1.4000000000000p+2
F_5_0 == Hex(<<1, 4, 0, 0, 0, 0, 0, 0, 0, 0, 0, 0, 0, 0>>, 2)
\* 10.0 = 0x1.4000000000000p+3
F_10_0 == Hex(<<1, 4, 0, 0, 0, 0, 0, 0, 0, 0, 0, 0, 0, 0>>, 3)

\* every literal is the f64 nearest to its decimal text
LiteralsRounded ==
    /\ F_0_01 = Lit(1, 100)
    /\ F_0_03 = Lit(3, 100)
    /\ F_0_05 = Lit(5, 100)
    /\ F_0_06 = Lit(6, 100)
    /\ F_0_07 = Lit(7, 100)
    /\ F_0_08 = Lit(8, 100)
    /\ F_0_10 = Lit(10, 100)
    /\ F_0_12 = Lit(12, 100)
    /\ F_0_15 = Lit(15, 100)
    /\ F_0_20 = Lit(20, 100)
    /\ F_0_25 = Lit(25, 100)
    /\ F_0_5 = Lit(5, 10)
    /\ F_0_1 = Lit(1, 10)
    /\ F_0_75 = Lit(75, 100)
    /\ F_0_80 = Lit(80, 100)
    /\ F_0_85 = Lit(85, 100)
    /\ F_0_90 = Lit(90, 100)
    /\ F_0_95 = Lit(95, 100)
    /\ F_1_0 = Lit(1, 1)
    /\ F_1_5 = Lit(15, 10)
    /\ F_5_0 = Lit(5, 1)
    /\ F_10_0 = Lit(10, 1)

tax_rate(state_code) ==
    CASE state_code = 1 -> F_0_05
      [] state_code = 2 -> F_0_07
      [] state_code = 3 -> F_0_10
      [] state_code = 4 -> F_0_06
      [] state_code = 5 -> F_0_08
      [] OTHER -> F_0_08

calculate_tax(amount, state_code) == FMul(amount, tax_rate(state_code))

standard_cost(weight, distance) ==
    FAdd(FAdd(F_5_0, FMul(weight, F_0_5)), FMul(distance, F_0_1))

calculate_shipping(weight, distance, express) ==
    LET cost == standard_cost(weight, distance)
    IN  IF express # 0 THEN FMul(cost, F_1_5) ELSE cost

\* commission_rate with the rate of tier 4 carried on to tier 5, which
\* C3_DefaultRate must tell from the code
commission_rate_tier5(tier) ==
    CASE tier = 1 -> F_0_05
      [] tier = 2 -> F_0_08
      [] tier = 3 -> F_0_12
      [] tier = 4 -> F_0_15
      [] tier = 5 -> F_0_15
      [] OTHER -> F_0_03

commission_rate(tier) ==
    CASE tier = 1 -> F_0_05
      [] tier = 2 -> F_0_08
      [] tier = 3 -> F_0_12
      [] tier = 4 -> F_0_15
      [] OTHER -> F_0_03

calculate_commission(sales, tier) == FMul(sales, commission_rate(tier))

\* fee_rate without the cap, which C4_LateFeeCap must tell from the code
fee_rate_uncapped(days_late) == FMul(FromI32(days_late), F_0_01)

fee_rate(days_late) == FMinimum(FMul(FromI32(days_late), F_0_01), F_0_25)

calculate_late_fee(days_late, amount) ==
    IF days_late <= 0 THEN F_0_0 ELSE FMul(amount, fee_rate(days_late))

\* the locals with alternate left unset, which C7_Pure must tell from the code
validate_credit_card_entry_unset(number) ==
    {[sum |-> 0, num |-> number, alternate |-> a] : a \in BOOLEAN}

\* validate_credit_card: the locals as the function is entered
validate_credit_card_entry(number) ==
    {[sum |-> 0, num |-> number, alternate |-> FALSE]}

\* the test of `while num >= 0`, which C9_Terminates must tell from the code
validate_credit_card_continues_at_zero(n) == ~n.neg

\* validate_credit_card: the test of the loop
validate_credit_card_continues(n) == I64Positive(n)

\* the digit doubled with its 9 never taken off, which C1_LuhnContract must
\* tell from the code
validate_credit_card_digit_doubled(n, alt) ==
    IF alt THEN MulI32(I64Rem10(n), 2) ELSE Exact(I64Rem10(n))

\* validate_credit_card: the digit of one iteration, doubled when alternate
\* is set; trap when an overflow check fails
validate_credit_card_digit(n, alt) ==
    LET digit == I64Rem10(n)
        twice == MulI32(digit, 2)
    IN  IF ~alt THEN Exact(digit)
        ELSE IF twice.trap THEN twice
        ELSE IF twice.val > 9 THEN AddI32(twice.val, -9)
        ELSE twice

\* the result with an empty sum refused, which C6_NonPositive must tell from
\* the code
validate_credit_card_result_nonzero(total) ==
    IF total # 0 /\ total % 10 = 0 THEN 1 ELSE 0

validate_credit_card_result(total) == IF total % 10 = 0 THEN 1 ELSE 0

(***************************************************************************)
(* discount.rs                                                             *)
(***************************************************************************)
calculate_discount(price, tier) ==
    CASE tier = 1 -> FMul(price, F_0_95)
      [] tier = 2 -> FMul(price, F_0_90)
      [] tier = 3 -> FMul(price, F_0_85)
      [] tier = 4 -> FMul(price, F_0_80)
      [] tier = 5 -> FMul(price, F_0_75)
      [] OTHER -> price

\* discount_rate with the two upper rates exchanged, which C5_BulkMonotonic
\* must tell from the code
discount_rate_exchanged(quantity) ==
    IF quantity >= 100 THEN F_0_15
    ELSE IF quantity >= 50 THEN F_0_20
    ELSE IF quantity >= 10 THEN F_0_10
    ELSE F_0_0

\* discount_rate with each threshold itself left in the band below, which
\* C8_BulkBands must tell from the code
discount_rate_above(quantity) ==
    IF quantity > 100 THEN F_0_20
    ELSE IF quantity > 50 THEN F_0_15
    ELSE IF quantity > 10 THEN F_0_10
    ELSE F_0_0

discount_rate(quantity) ==
    IF quantity >= 100 THEN F_0_20
    ELSE IF quantity >= 50 THEN F_0_15
    ELSE IF quantity >= 10 THEN F_0_10
    ELSE F_0_0

calculate_bulk_discount(price, quantity) ==
    FMul(price, FSub(F_1_0, discount_rate(quantity)))

base_points(amount) == ToI32(FDiv(amount, F_10_0))

\* the outcome of calculate_loyalty_points: its value, or a trap
calculate_loyalty_points(amount, is_premium) ==
    IF is_premium # 0 THEN MulI32(base_points(amount), 2)
    ELSE Exact(base_points(amount))

(***************************************************************************)
(* The arguments the host passes.                                          *)
(***************************************************************************)
MaxCode == 6
MaxSmallNumber == 20

Codes == {I32Min, I32Max} \cup (0 .. MaxCode)

Days == {I32Min, -5, 0, 1, 24, 25, 26, 40, I32Max}

Quantities == {I32Min, -5, 0, 9, 10, 49, 50, 75, 99, 100, I32Max}

Flags == {0, 1, -1}

\* 1e10 = 0x1.2a05f2p+33
F_1e10 == Hex(<<1, 2, 10, 0, 5, 15, 2, 0, 0, 0, 0, 0, 0, 0>>, 33)

Amounts == {NaN, Inf(0), FromI32(100), FromI32(-95), F_0_1}

LoyaltyAmounts ==
    Amounts \cup
    {Inf(1), FromI32(-9), F_1e10, FMul(F_1e10, FromI32(2)),
     FMul(F_1e10, FromI32(3)), FMul(F_1e10, FromI32(-3))}

Weights == {Zero(0), F_0_1}

Distances == {NaN, FromI32(1000)}

Numbers ==
    {I64FromInt(n) : n \in (0 - MaxSmallNumber) .. MaxSmallNumber} \cup
    { I64(FALSE, DecimalValue(<<4,5,3,9,1,4,8,8,0,3,4,3,6,4,6,7>>)),
      I64(FALSE, DecimalValue(<<1,2,3,4,5,6,7,8,1,2,3,4,5,6,7,8>>)),
      I64(FALSE, DecimalValue(<<7,9,9,2,7,3,9,8,7,1,3>>)),
      I64(FALSE, DecimalValue(<<5,9>>)),
      I64(FALSE, DecimalValue(<<1,0,0,0,0,0,0,0,0,0,0,0,0,0,0,0,0,0,0>>)),
      I64(FALSE, DecimalValue(<<9,2,2,3,3,7,2,0,3,6,8,5,4,7,7,5,8,0,7>>)),
      I64(TRUE, DecimalValue(<<9,2,2,3,3,7,2,0,3,6,8,5,4,7,7,5,8,0,8>>)) }

(***************************************************************************)
(* One invocation at a time: the host calls an exported function with      *)
(* primitive arguments and takes its return value, or the module traps.    *)
(***************************************************************************)
NoArgs == [none |-> TRUE]
NoLocal == [none |-> TRUE]

\* what a function returns: an f64 is one of the records of the arithmetic
\* above, an i32 is kept beside its type
I32Value(n) == [cls |-> "i32", val |-> n]
NoValue == [cls |-> "none"]
NoCall ==
    [proc |-> "none", args |-> NoArgs, local |-> NoLocal, outcome |-> "none",
     ret |-> NoValue]
NoNumber == I64(FALSE, <<>>)

Init ==
    /\ overflow_checks \in BOOLEAN
    /\ pc = "idle"
    /\ proc = "none"
    /\ args = NoArgs
    /\ local = NoLocal
    /\ ret = NoValue
    /\ num = NoNumber
    /\ sum = 0
    /\ alternate = FALSE
    /\ iters = 0
    /\ seen = NoCall

\* what an invocation of a function without a loop leaves alone; such a
\* function runs from its call to its return in one step
NoFrame == UNCHANGED <<overflow_checks, seen, num, sum, alternate, iters>>

Call_calculate_tax ==
    \E amount \in Amounts, state_code \in Codes :
        /\ pc = "idle"
        /\ pc' = "returned"
        /\ proc' = "calculate_tax"
        /\ args' = [amount |-> amount, state_code |-> state_code]
        /\ local' = [tax_rate |-> tax_rate(state_code)]
        /\ ret' = calculate_tax(amount, state_code)
        /\ NoFrame

Call_calculate_shipping ==
    \E weight \in Weights, distance \in Distances, express \in Flags :
        /\ pc = "idle"
        /\ pc' = "returned"
        /\ proc' = "calculate_shipping"
        /\ args' = [weight |-> weight, distance |-> distance, express |-> express]
        /\ local' = [standard_cost |-> standard_cost(weight, distance)]
        /\ ret' = calculate_shipping(weight, distance, express)
        /\ NoFrame

Call_calculate_commission ==
    \E sales \in Amounts, tier \in Codes :
        /\ pc = "idle"
        /\ pc' = "returned"
        /\ proc' = "calculate_commission"
        /\ args' = [sales |-> sales, tier |-> tier]
        /\ local' = [commission_rate |-> commission_rate(tier)]
        /\ ret' = calculate_commission(sales, tier)
        /\ NoFrame

Call_calculate_late_fee ==
    \E days_late \in Days, amount \in Amounts :
        /\ pc = "idle"
        /\ pc' = "returned"
        /\ proc' = "calculate_late_fee"
        /\ args' = [days_late |-> days_late, amount |-> amount]
        /\ local' = IF days_late <= 0 THEN NoLocal
                     ELSE [fee_rate |-> fee_rate(days_late)]
        /\ ret' = calculate_late_fee(days_late, amount)
        /\ NoFrame

Call_calculate_discount ==
    \E price \in Amounts, tier \in Codes :
        /\ pc = "idle"
        /\ pc' = "returned"
        /\ proc' = "calculate_discount"
        /\ args' = [price |-> price, tier |-> tier]
        /\ local' = NoLocal
        /\ ret' = calculate_discount(price, tier)
        /\ NoFrame

Call_calculate_bulk_discount ==
    \E price \in Amounts, quantity \in Quantities :
        /\ pc = "idle"
        /\ pc' = "returned"
        /\ proc' = "calculate_bulk_discount"
        /\ args' = [price |-> price, quantity |-> quantity]
        /\ local' = [discount_rate |-> discount_rate(quantity)]
        /\ ret' = calculate_bulk_discount(price, quantity)
        /\ NoFrame

Call_calculate_loyalty_points ==
    \E amount \in LoyaltyAmounts, is_premium \in Flags :
        LET out == calculate_loyalty_points(amount, is_premium)
        IN  /\ pc = "idle"
            /\ pc' = IF out.trap THEN "trapped" ELSE "returned"
            /\ proc' = "calculate_loyalty_points"
            /\ args' = [amount |-> amount, is_premium |-> is_premium]
            /\ local' = [base_points |-> base_points(amount)]
            /\ ret' = IF out.trap THEN NoValue ELSE I32Value(out.val)
            /\ NoFrame

Call_validate_credit_card ==
    \E number \in Numbers : \E frame \in validate_credit_card_entry(number) :
        /\ pc = "idle"
        /\ pc' = "loop"
        /\ proc' = "validate_credit_card"
        /\ args' = [number |-> number]
        /\ sum' = frame.sum
        /\ num' = frame.num
        /\ alternate' = frame.alternate
        /\ iters' = 0
        /\ UNCHANGED <<overflow_checks, local, ret, seen>>

\* one iteration of `while num > 0`
Loop_validate_credit_card ==
    /\ pc = "loop"
    /\ validate_credit_card_continues(num)
    /\ LET digit == validate_credit_card_digit(num, alternate)
           total == IF digit.trap THEN digit ELSE AddI32(sum, digit.val)
       IN  IF total.trap
           THEN /\ pc' = "trapped"
                /\ UNCHANGED <<num, sum, alternate, iters>>
           ELSE /\ pc' = "loop"
                /\ num' = I64Div10(num)
                /\ sum' = total.val
                /\ alternate' = ~alternate
                /\ iters' = iters + 1
    /\ UNCHANGED <<overflow_checks, proc, args, local, ret, seen>>

\* the loop is left and the function returns
Return_validate_credit_card ==
    /\ pc = "loop"
    /\ ~validate_credit_card_continues(num)
    /\ pc' = "returned"
    /\ ret' = I32Value(validate_credit_card_result(sum))
    /\ UNCHANGED <<overflow_checks, proc, args, local, num, sum, alternate, iters, seen>>

\* the invocation is over and its locals are gone
EndInvocation ==
    /\ proc' = "none"
    /\ args' = NoArgs
    /\ local' = NoLocal
    /\ ret' = NoValue
    /\ num' = NoNumber
    /\ sum' = 0
    /\ alternate' = FALSE
    /\ iters' = 0
    /\ UNCHANGED <<overflow_checks, seen>>

\* the host has the return value and may call again
Returned ==
    /\ pc = "returned"
    /\ pc' = "idle"
    /\ EndInvocation

\* the host instantiates the module afresh after a trap
Reinstantiate ==
    /\ pc = "trapped"
    /\ pc' = "idle"
    /\ EndInvocation

\* the host keeps the invocation that just ended, to compare a later one with
Remember ==
    /\ pc \in {"returned", "trapped"}
    /\ seen' = [proc |-> proc, args |-> args, local |-> local, outcome |-> pc,
                ret |-> ret]
    /\ UNCHANGED <<overflow_checks, pc, proc, args, local, ret, num, sum, alternate, iters>>

Next ==
    \/ Call_calculate_tax
    \/ Call_calculate_shipping
    \/ Call_validate_credit_card
    \/ Loop_validate_credit_card
    \/ Return_validate_credit_card
    \/ Call_calculate_commission
    \/ Call_calculate_late_fee
    \/ Call_calculate_discount
    \/ Call_calculate_bulk_discount
    \/ Call_calculate_loyalty_points
    \/ Returned
    \/ Reinstantiate

Spec == Init /\ [][Next]_vars

\* an invocation in progress runs on: the module is single-threaded and
\* nothing in it waits
FairSpec ==
    /\ Spec
    /\ WF_vars(Loop_validate_credit_card)
    /\ WF_vars(Return_validate_credit_card)

NextPairs == Next \/ Remember

PairSpec == Init /\ [][NextPairs]_vars

(***************************************************************************)
(* The properties.                                                         *)
(***************************************************************************)
VCC == "validate_credit_card"

Ended == pc \in {"returned", "trapped"}

\* the decimal digits of a magnitude, least significant first
RECURSIVE DigitsLE(_)
DigitsLE(m) ==
    IF m = <<>> THEN <<>> ELSE <<BModSmall(m, 10)>> \o DigitsLE(BDivSmall(m, 10))

\* a digit's share of the Luhn sum at position i, the least significant
\* digit at position 1
LuhnTerm(d, i) ==
    IF i % 2 = 1 THEN d ELSE IF 2 * d > 9 THEN 2 * d - 9 ELSE 2 * d

RECURSIVE LuhnSumFrom(_, _)
LuhnSumFrom(ds, i) ==
    IF i > Len(ds) THEN 0 ELSE LuhnTerm(ds[i], i) + LuhnSumFrom(ds, i + 1)

LuhnSum(ds) == LuhnSumFrom(ds, 1)

Vector_4539148803436467 == I64(FALSE, DecimalValue(<<4,5,3,9,1,4,8,8,0,3,4,3,6,4,6,7>>))
Vector_1234567812345678 == I64(FALSE, DecimalValue(<<1,2,3,4,5,6,7,8,1,2,3,4,5,6,7,8>>))

\* C1: for a positive number validate_credit_card returns 1 exactly when the
\* Luhn sum of its decimal digits (every second digit from the second least
\* significant doubled, less 9 when above 9) is divisible by 10, else 0;
\* 4539148803436467 gives 1 and 1234567812345678 gives 0.
C1_LuhnContract ==
    (proc = VCC /\ I64Positive(args.number)) =>
        /\ pc # "trapped"
        /\ pc = "returned" =>
            /\ ret = I32Value(IF LuhnSum(DigitsLE(args.number.mag)) % 10 = 0 THEN 1 ELSE 0)
            /\ args.number = Vector_4539148803436467 => ret = I32Value(1)
            /\ args.number = Vector_1234567812345678 => ret = I32Value(0)

C1_Witness ==
    /\ pc = "returned"
    /\ proc = VCC
    /\ args.number = Vector_4539148803436467
    /\ ret = I32Value(1)

\* C2: no invocation of any of the eight procedures aborts or traps, whatever
\* its arguments; every invocation ends with a return value.
C2_NeverTraps == pc # "trapped"

\* C3: a code outside the table gives the default: calculate_tax returns
\* amount * 0.08 for state_code outside 1..5, calculate_commission returns
\* sales * 0.03 for tier outside 1..4, calculate_discount returns price
\* unchanged for tier outside 1..5.
C3_DefaultRate ==
    pc = "returned" =>
        /\ (proc = "calculate_tax" /\ args.state_code \notin 1..5)
               => ret = FMul(args.amount, F_0_08)
        /\ (proc = "calculate_commission" /\ args.tier \notin 1..4)
               => ret = FMul(args.sales, F_0_03)
        /\ (proc = "calculate_discount" /\ args.tier \notin 1..5)
               => ret = args.price

C3_Witness ==
    /\ pc = "returned"
    /\ proc = "calculate_commission"
    /\ args.tier = 5
    /\ args.sales = FromI32(100)
    /\ ret = FromI32(3)

\* C4: calculate_late_fee returns amount * 0.25 whenever days_late >= 25 and
\* 0 whenever days_late <= 0; (40, 100) gives 25 and (-5, 100) gives 0.
C4_LateFeeCap ==
    (pc = "returned" /\ proc = "calculate_late_fee") =>
        /\ args.days_late >= 25 => ret = FMul(args.amount, F_0_25)
        /\ args.days_late <= 0 => ret = Zero(0)
        /\ (args.days_late = 40 /\ args.amount = FromI32(100)) => ret = FromI32(25)
        /\ (args.days_late = -5 /\ args.amount = FromI32(100)) => ret = Zero(0)

C4_Witness ==
    /\ pc = "returned"
    /\ proc = "calculate_late_fee"
    /\ args.days_late = 25
    /\ args.amount = FromI32(100)
    /\ ret = FromI32(25)

\* C5: of two invocations of calculate_bulk_discount with the same price, the
\* one with the larger quantity selects a rate at least as large, and for a
\* non-negative price returns a price no greater.
C5_BulkMonotonic ==
    ( /\ pc = "returned"
      /\ proc = "calculate_bulk_discount"
      /\ seen.proc = "calculate_bulk_discount"
      /\ seen.args.price = args.price
      /\ seen.args.quantity <= args.quantity ) =>
        /\ FLe(seen.local.discount_rate, local.discount_rate)
        /\ FLe(Zero(0), args.price) => ~FLt(seen.ret, ret)

C5_Witness ==
    /\ pc = "returned"
    /\ proc = "calculate_bulk_discount"
    /\ seen.proc = "calculate_bulk_discount"
    /\ args.price = FromI32(100)
    /\ seen.args.price = FromI32(100)
    /\ seen.args.quantity = 10
    /\ args.quantity = 100
    /\ seen.ret = FromI32(90)
    /\ ret = FromI32(80)

\* C6: for a number <= 0 validate_credit_card runs no iteration, leaves the
\* sum at 0 and returns 1.
C6_NonPositive ==
    (proc = VCC /\ ~I64Positive(args.number)) =>
        /\ pc \in {"loop", "returned"}
        /\ iters = 0
        /\ sum = 0
        /\ num = args.number
        /\ pc = "returned" => ret = I32Value(1)

C6_Witness ==
    /\ pc = "returned"
    /\ proc = VCC
    /\ args.number.neg
    /\ iters = 0
    /\ ret = I32Value(1)

C8_BulkBands ==
    (pc = "returned" /\ proc = "calculate_bulk_discount") =>
        /\ args.quantity >= 100 =>
            /\ local.discount_rate = F_0_20
            /\ ret = FMul(args.price, FSub(F_1_0, F_0_20))
        /\ (args.quantity >= 50 /\ args.quantity < 100) =>
            /\ local.discount_rate = F_0_15
            /\ ret = FMul(args.price, F_0_85)
        /\ (args.quantity >= 10 /\ args.quantity < 50) =>
            /\ local.discount_rate = F_0_10
            /\ ret = FMul(args.price, FSub(F_1_0, F_0_10))
        /\ args.quantity < 10 =>
            /\ local.discount_rate = F_0_0
            /\ ret = args.price

C8_Witness ==
    /\ pc = "returned"
    /\ proc = "calculate_bulk_discount"
    /\ args.quantity = 75
    /\ args.price = FromI32(100)
    /\ ret = FromI32(85)

\* the number of decimal digits of a number, none for a number <= 0
DigitCount(n) == IF I64Positive(n) THEN Len(DigitsLE(n.mag)) ELSE 0

MaxI64Digits == 19

\* C9: every invocation of validate_credit_card runs to completion: each
\* iteration of the loop makes num strictly smaller, the loop has run once
\* per decimal digit of the number when the function returns (at most 19
\* times, and not at all for a number <= 0), and the function does return.
C9_Terminates ==
    /\ [][(pc = "loop" /\ pc' = "loop") =>
            (I64Lt(num', num) /\ iters' = iters + 1)]_vars
    /\ []((proc = VCC /\ pc = "returned") =>
            (iters = DigitCount(args.number) /\ iters <= MaxI64Digits))
    /\ [](proc = VCC => pc # "trapped")
    /\ (pc = "loop") ~> (pc = "returned")

C9_Witness ==
    /\ pc = "returned"
    /\ proc = VCC
    /\ iters = MaxI64Digits

\* twice n fits in an i32
DoubleFits(n) == n >= (0 - 1073741824) /\ n <= 1073741823

\* C10: with a nonzero is_premium calculate_loyalty_points returns exactly
\* twice what it returns for the same amount with is_premium = 0 (the amount
\* over 10, toward zero, within the i32 range), and the doubled value fits
\* in an i32 without wrapping.
C10_PremiumDoubles ==
    (Ended /\ proc = "calculate_loyalty_points" /\ args.is_premium # 0) =>
        /\ pc = "returned"
        /\ DoubleFits(ToI32(FDiv(args.amount, F_10_0)))
        /\ ret = I32Value(2 * ToI32(FDiv(args.amount, F_10_0)))

====
